---- MODULE Spec2Model ----
(***************************************************************************)
(* A model of the trading-project data pipeline:                           *)
(*   - RealTimeDataHandler (src/realtime_data.py): the streaming handler,  *)
(*     its buffers, callbacks and receive loop;                            *)
(*   - run_realtime_pipeline (src/main.py): the real-time orchestrator;    *)
(*   - fetch_stock_data (src/data_acquirer.py): the historical fetcher;    *)
(*   - run_pipeline and the historical loop of src/main.py.                *)
(* The polygon transport (WebSocketClient, RESTClient) is external: each   *)
(* call to it either returns or raises, chosen by the environment.         *)
(***************************************************************************)
EXTENDS Integers, Sequences, FiniteSets, TLC

VARIABLES
    \* ---- RealTimeDataHandler ----
    ws_client,      \* self.ws_client: NoClient (None) or Client (an object)
    established,    \* the current client's connect() has returned normally
    releases,       \* number of ws_client.close() calls made on the current client
    closed,         \* handler.close() has been called since the last successful connect
    data_buffer,    \* self.data_buffer: ticker -> sequence of trade rows
    callbacks,      \* self.callbacks: ticker -> callback
    streaming,      \* start_streaming is inside its while-loop
    enteredFrom,    \* lifecycle state in which the running loop was entered
    last,           \* the most recent call: operation, arguments, exception that
                    \* left it, errors logged, callbacks invoked, return value
    \* ---- run_realtime_pipeline ----
    pc,             \* position of the orchestrator
    tickers,        \* its argument
    pending,        \* the exception being propagated / handled
    escaped,        \* the exception that left run_realtime_pipeline
    orchCloses,     \* number of handler.close() calls made by the orchestrator
    connects,       \* number of handler.connect() calls made during the run
    recvFailed,     \* the transport's recv() has raised during the run
    \* ---- historical batch ----
    bpc,            \* position of the historical loop / run_pipeline
    todo,           \* tickers_to_process
    bidx,           \* index of the current ticker (1-based)
    started,        \* tickers whose run_pipeline has been started, in order
    outcomes,       \* how each started run_pipeline ended
    raw_df,         \* run_pipeline's raw_df
    processed_df,   \* run_pipeline's processed_df
    batchError,     \* an exception that left the historical loop
    \* ---- fetch_stock_data on its own ----
    fin,            \* what the client does for the request
    fout,           \* what fetch_stock_data returned
    \* ---- preprocess_data on its own ----
    din,            \* the caller's df
    dout,           \* what preprocess_data(df) returned
    dout2           \* what preprocess_data of that result returned

hvars == <<ws_client, established, releases, closed, data_buffer, callbacks,
           streaming, enteredFrom, last>>
ovars == <<pc, tickers, pending, escaped, orchCloses, connects, recvFailed>>
bvars == <<bpc, todo, bidx, started, outcomes, raw_df, processed_df, batchError>>
fvars == <<fin, fout, din, dout, dout2>>
vars  == <<hvars, ovars, bvars, fvars>>

(***************************************************************************)
(* Bounds of the model                                                     *)
(***************************************************************************)
MaxRows == 2        \* rows held by the buffers together; no message is
                    \* delivered once they hold that many
MaxCloses == 2      \* transport close() calls on one client object
MaxAggs == 3        \* aggregate records returned by the client
MaxTs == 2          \* distinct aggregate timestamps
MaxBatch == 2       \* tickers given to the historical loop
MaxCleanRows == 3   \* rows of a frame given to preprocess_data

(***************************************************************************)
(* Values                                                                  *)
(***************************************************************************)
Tickers == {"AAPL", "MSFT"}
Symbols == Tickers \cup {"TSLA"}
Callbacks == {"cb1", "cb2"}
None == "None"
NoClient == "None"
Client == "WebSocketClient"

\* A JSON field value: a number, a string holding a number, any other string,
\* or absent (dict.get returns None).  Sizes are counted in tenths, so that
\* <<"num", 15>> is the size 1.5.
Num(n) == <<"num", n>>
NumStr(n) == <<"str", n>>
BadStr == <<"str", -1>>
Absent == <<"none", 0>>
IsNum(v) == v[1] = "num"

\* float(x): a number or a numeric string converts, None raises TypeError,
\* other text raises ValueError.
FloatRaises(v) == v = Absent \/ v = BadStr
FloatOf(v) == Num(v[2])

\* int(x): a number is truncated toward zero, a string must spell an integer,
\* None raises TypeError.
IntRaises(v) == \/ v = Absent
                \/ v = BadStr
                \/ (v[1] = "str" /\ v[2] % 10 # 0)
IntOf(v) == Num((v[2] \div 10) * 10)

\* pd.to_datetime(x, unit='ms', utc=True): None gives NaT, text raises.
ToDatetimeRaises(v) == v[1] = "str"
ToDatetime(v) == IF v = Absent THEN <<"NaT", 0>> ELSE <<"utc_ms", v[2]>>

(***************************************************************************)
(* Incoming messages.  A raw message is text; json.loads either raises or  *)
(* gives a value, which is a mapping or some other JSON value.             *)
(***************************************************************************)
Msg(kind, ev, sym, t, p, s, x) ==
    [kind |-> kind, ev |-> ev, sym |-> sym, t |-> t, p |-> p, s |-> s, x |-> x]
NoMsg == Msg("none", None, None, Absent, Absent, Absent, Absent)
NonMapping == Msg("list", None, None, Absent, Absent, Absent, Absent)
Trade(sym, t, p, s, x) == Msg("map", "T", sym, t, p, s, x)

WellFormedTrades ==
    { Trade(sym, Num(1), Num(p), Num(10), Num(4)) :
        sym \in Symbols, p \in {1, 2} }
MalformedTrades ==
    { Trade("AAPL", Num(1), Absent, Num(10), Num(4)),
      Trade("AAPL", Num(1), BadStr, Num(10), Num(4)),
      Trade("MSFT", Num(1), Num(1), Absent, Num(4)),
      Trade("MSFT", Num(1), Num(1), NumStr(15), Num(4)) }
\* Messages that are accepted although a field is not the number it should be:
\* a numeric string, a fractional size.
LenientTrades ==
    { Trade("AAPL", Num(1), NumStr(2), Num(10), Num(4)),
      Trade("MSFT", Num(1), Num(1), Num(15), Num(4)) }
OtherMappings ==
    { Msg("map", "Q", "AAPL", Num(1), Num(1), Num(10), Num(4)),
      Msg("map", "status", None, Absent, Absent, Absent, Absent),
      Trade(None, Num(1), Num(1), Num(10), Num(4)) }
Decoded == WellFormedTrades \cup MalformedTrades \cup LenientTrades
             \cup OtherMappings \cup {NonMapping}

\* The text on the wire: either the JSON encoding of a value, or other text.
JsonText(m) == [json |-> TRUE, value |-> m]
NonJson == [json |-> FALSE,
            value |-> Msg("text", None, None, Absent, Absent, Absent, Absent)]
NoRaw == [json |-> FALSE, value |-> NoMsg]
RawMessages == { JsonText(m) : m \in Decoded } \cup {NonJson}

\* json.loads(message)
JsonLoadsRaises(raw) == ~raw.json
JsonLoads(raw) == raw.value

(***************************************************************************)
(* RealTimeDataHandler: the object and its methods.  A method maps the     *)
(* object and the environment's choices to the object afterwards, the      *)
(* exception that leaves the call, the number of errors it logged and its  *)
(* return value.                                                           *)
(***************************************************************************)
EmptyMap == [t \in {} |-> None]
NoRet == <<>>

Self == [ws_client |-> ws_client, established |-> established,
         releases |-> releases, closed |-> closed,
         data_buffer |-> data_buffer, callbacks |-> callbacks]

Result(self, raised, logged, ret) ==
    [self |-> self, raised |-> raised, logged |-> logged, ret |-> ret,
     calls |-> <<>>]
\* a call during which callback cb was awaited with row
Invoking(r, cb, row) == [r EXCEPT !.calls = Append(@, [cb |-> cb, row |-> row])]

\* __init__
NewHandler == [ws_client |-> NoClient, established |-> FALSE, releases |-> 0,
               closed |-> FALSE, data_buffer |-> EmptyMap,
               callbacks |-> EmptyMap]

ConnectOutcomes == {"ok", "ctor_raises", "connect_raises"}

\* connect(): the client object is assigned before its connect() is awaited.
connect(self, outcome) ==
    CASE outcome = "ctor_raises" ->
           Result(self, "ConnectError", 1, NoRet)
      [] outcome = "connect_raises" ->
           Result([self EXCEPT !.ws_client = Client, !.established = FALSE,
                               !.releases = 0],
                  "ConnectError", 1, NoRet)
      [] OTHER ->
           Result([self EXCEPT !.ws_client = Client, !.established = TRUE,
                               !.releases = 0, !.closed = FALSE],
                  "none", 0, NoRet)

\* the guard "if not self.ws_client: await self.connect()"
AutoConnect(self, outcome) ==
    IF self.ws_client = NoClient THEN connect(self, outcome)
    ELSE Result(self, "none", 0, NoRet)

\* self.data_buffer[ticker] = []
InitBuffer(buf, ticker) ==
    [t \in DOMAIN buf \cup {ticker} |-> IF t = ticker THEN <<>> ELSE buf[t]]

\* if callback: self.callbacks[ticker] = callback
SetCallback(cbs, ticker, callback) ==
    IF callback # None
    THEN [t \in DOMAIN cbs \cup {ticker} |->
             IF t = ticker THEN callback ELSE cbs[t]]
    ELSE cbs

\* the first n iterations of "for ticker in tickers"
RECURSIVE SubscribeLoop(_, _, _, _)
SubscribeLoop(self, tks, callback, n) ==
    IF n = 0 THEN self
    ELSE LET prev == SubscribeLoop(self, tks, callback, n - 1)
         IN [prev EXCEPT
                !.data_buffer = InitBuffer(@, tks[n]),
                !.callbacks = SetCallback(@, tks[n], callback)]

\* subscribe(tickers, callback): failAt = 0 when every ws_client.subscribe
\* returns, else the index of the one that raises.
subscribe(self, tks, callback, conn, failAt) ==
    LET c == AutoConnect(self, conn)
    IN IF c.raised # "none" THEN c
       ELSE IF failAt = 0
       THEN Result(SubscribeLoop(c.self, tks, callback, Len(tks)),
                   "none", 0, NoRet)
       ELSE Result(SubscribeLoop(c.self, tks, callback, failAt - 1),
                   "SubscribeError", 1, NoRet)

\* the trade_data dict built from a message
TradeData(m) ==
    [timestamp |-> ToDatetime(m.t), price |-> FloatOf(m.p),
     size |-> IntOf(m.s), exchange |-> m.x, conditions |-> <<>>]
TradeDataRaises(m) ==
    ToDatetimeRaises(m.t) \/ FloatRaises(m.p) \/ IntRaises(m.s)

\* handle_message with the callback lookup left out
handle_message_no_callback(self, m, cbOk) ==
    IF m.kind # "map"
    THEN Result(self, "none", 1, NoRet)
    ELSE IF m.ev = "T" /\ m.sym \in DOMAIN self.data_buffer
    THEN IF TradeDataRaises(m)
         THEN Result(self, "none", 1, NoRet)
         ELSE Result([self EXCEPT !.data_buffer[m.sym] =
                                      Append(@, TradeData(m))],
                     "none", 0, NoRet)
    ELSE Result(self, "none", 0, NoRet)

\* handle_message with  self.data_buffer.setdefault(ticker, [])  in place of
\* the test  "if ticker in self.data_buffer"
handle_message_any_symbol(self, m, cbOk) ==
    IF m.kind # "map"
    THEN Result(self, "none", 1, NoRet)
    ELSE IF m.ev = "T"
    THEN IF TradeDataRaises(m)
         THEN Result(self, "none", 1, NoRet)
         ELSE LET row == TradeData(m)
                  buf == IF m.sym \in DOMAIN self.data_buffer
                         THEN self.data_buffer
                         ELSE [t \in DOMAIN self.data_buffer \cup {m.sym} |->
                                 IF t = m.sym THEN <<>>
                                 ELSE self.data_buffer[t]]
                  appended == [self EXCEPT
                                 !.data_buffer = [buf EXCEPT ![m.sym] =
                                                     Append(@, row)]]
              IN IF m.sym \in DOMAIN self.callbacks
                 THEN Invoking(Result(appended, "none",
                                      IF cbOk THEN 0 ELSE 1, NoRet),
                               self.callbacks[m.sym], row)
                 ELSE Result(appended, "none", 0, NoRet)
    ELSE Result(self, "none", 0, NoRet)

\* handle_message(message): every exception is caught and logged.
handle_message(self, m, cbOk) ==
    IF m.kind # "map"
    THEN Result(self, "none", 1, NoRet)          \* .get on a non-mapping
    ELSE IF m.ev = "T" /\ m.sym \in DOMAIN self.data_buffer
    THEN IF TradeDataRaises(m)
         THEN Result(self, "none", 1, NoRet)
         ELSE LET row == TradeData(m)
                  appended == [self EXCEPT
                                 !.data_buffer[m.sym] = Append(@, row)]
              IN IF m.sym \in DOMAIN self.callbacks
                 THEN Invoking(Result(appended, "none",
                                      IF cbOk THEN 0 ELSE 1, NoRet),
                               self.callbacks[m.sym], row)
                 ELSE Result(appended, "none", 0, NoRet)
    ELSE Result(self, "none", 0, NoRet)

\* one iteration of the loop of start_streaming; the try encloses the loop.
RecvOutcomes == {"message", "recv_raises"}
loop_iteration(self, recv, raw, cbOk) ==
    IF recv = "recv_raises" THEN Result(self, "RecvError", 1, NoRet)
    ELSE IF JsonLoadsRaises(raw) THEN Result(self, "JSONDecodeError", 1, NoRet)
    ELSE handle_message(self, JsonLoads(raw), cbOk)

\* pd.DataFrame(rows), then set_index('timestamp') unless it is empty
DataFrame(rows) ==
    [i \in 1..Len(rows) |->
        [index |-> rows[i].timestamp, price |-> rows[i].price,
         size |-> rows[i].size, exchange |-> rows[i].exchange,
         conditions |-> rows[i].conditions]]

\* get_buffer_data(ticker)
get_buffer_data(self, ticker) ==
    IF ticker \notin DOMAIN self.data_buffer
    THEN Result(self, "none", 0, <<>>)
    ELSE Result(self, "none", 0, DataFrame(self.data_buffer[ticker]))

\* close()
close(self, closeOk) ==
    IF self.ws_client # NoClient
    THEN Result([self EXCEPT !.releases = @ + 1, !.closed = TRUE],
                IF closeOk THEN "none" ELSE "CloseError", 0, NoRet)
    ELSE Result([self EXCEPT !.closed = TRUE], "none", 0, NoRet)

(***************************************************************************)
(* The lifecycle state of section 4.4, read off the handler's fields.      *)
(***************************************************************************)
Lifecycle(self) ==
    IF self.closed THEN "Closed"
    ELSE IF self.ws_client = NoClient \/ ~self.established THEN "Disconnected"
    ELSE IF DOMAIN self.data_buffer = {} THEN "Connected"
    ELSE "Subscribed"

(***************************************************************************)
(* Calls on a handler.  Apply installs the outcome of a method call.       *)
(* There is a single logical thread of control (section 5): while          *)
(* start_streaming runs its loop the caller is suspended in it, so the     *)
(* other methods are called when no loop is running; get_buffer_data is    *)
(* the read that may happen between two iterations.                        *)
(***************************************************************************)
Call(op, raw, tks, cb, r) ==
    [op |-> op, msg |-> raw, tks |-> tks, cb |-> cb,
     raised |-> r.raised, logged |-> r.logged, calls |-> r.calls,
     ret |-> r.ret]
NoCall == [op |-> "init", msg |-> NoRaw, tks |-> <<>>, cb |-> None,
           raised |-> "none", logged |-> 0, calls |-> <<>>, ret |-> NoRet]

Apply(op, raw, tks, cb, r) ==
    /\ ws_client' = r.self.ws_client
    /\ established' = r.self.established
    /\ releases' = r.self.releases
    /\ closed' = r.self.closed
    /\ data_buffer' = r.self.data_buffer
    /\ callbacks' = r.self.callbacks
    /\ last' = Call(op, raw, tks, cb, r)

\* the number of rows in all buffers
RECURSIVE SumLen(_, _)
SumLen(buf, keys) ==
    IF keys = {} THEN 0
    ELSE LET k == CHOOSE x \in keys : TRUE
         IN Len(buf[k]) + SumLen(buf, keys \ {k})
Buffered(buf) == SumLen(buf, DOMAIN buf)

TickerLists == { <<>>, <<"AAPL">>, <<"MSFT">>, <<"AAPL", "MSFT">> }

HandlerInit ==
    /\ ws_client = NewHandler.ws_client
    /\ established = NewHandler.established
    /\ releases = NewHandler.releases
    /\ closed = NewHandler.closed
    /\ data_buffer = NewHandler.data_buffer
    /\ callbacks = NewHandler.callbacks
    /\ streaming = FALSE
    /\ enteredFrom = "-"
    /\ last = NoCall

\* await handler.connect()
DoConnect(conn) ==
    /\ ~streaming
    /\ Apply("connect", NoRaw, <<>>, None, connect(Self, conn))
    /\ UNCHANGED <<streaming, enteredFrom>>

\* await handler.subscribe(tks, cb)
DoSubscribe(tks, cb, conn, failAt) ==
    /\ ~streaming
    /\ Apply("subscribe", NoRaw, tks, cb, subscribe(Self, tks, cb, conn, failAt))
    /\ UNCHANGED <<streaming, enteredFrom>>

\* await handler.handle_message(m)
DoHandleMessage(m, cbOk) ==
    /\ ~streaming
    /\ Buffered(data_buffer) < MaxRows
    /\ Apply("handle_message", JsonText(m), <<>>, None,
             handle_message(Self, m, cbOk))
    /\ UNCHANGED <<streaming, enteredFrom>>

\* await handler.start_streaming(), up to the first recv()
DoStartStreaming(conn) ==
    /\ ~streaming
    /\ LET r == AutoConnect(Self, conn)
       IN /\ Apply("start_streaming", NoRaw, <<>>, None, r)
          /\ streaming' = (r.raised = "none")
          /\ enteredFrom' = IF r.raised = "none" THEN Lifecycle(r.self)
                            ELSE "-"

\* one iteration of the receive loop
DoLoopIteration(recv, raw, cbOk) ==
    /\ streaming
    /\ recv = "message" => Buffered(data_buffer) < MaxRows
    /\ LET r == loop_iteration(Self, recv, raw, cbOk)
       IN /\ Apply("recv", raw, <<>>, None, r)
          /\ streaming' = (r.raised = "none")
          /\ enteredFrom' = IF r.raised = "none" THEN enteredFrom ELSE "-"

\* handler.get_buffer_data(ticker)
DoGetBufferData(ticker) ==
    /\ Apply("get_buffer_data", NoRaw, <<ticker>>, None,
             get_buffer_data(Self, ticker))
    /\ UNCHANGED <<streaming, enteredFrom>>

\* await handler.close()
DoClose(closeOk) ==
    /\ ~streaming
    /\ ws_client # NoClient => releases < MaxCloses
    /\ Apply("close", NoRaw, <<>>, None, close(Self, closeOk))
    /\ UNCHANGED <<streaming, enteredFrom>>

(***************************************************************************)
(* The environment's choices that a call can observe: connect() is only    *)
(* reached when there is no client object, a callback only when the        *)
(* message is routed to one.                                               *)
(***************************************************************************)
ConnectionOutcomes(self) ==
    IF self.ws_client = NoClient THEN ConnectOutcomes ELSE {"ok"}
CallbackOutcomes(self, m) ==
    IF /\ m.kind = "map" /\ m.ev = "T" /\ m.sym \in DOMAIN self.callbacks
       /\ m.sym \in DOMAIN self.data_buffer /\ ~TradeDataRaises(m)
    THEN BOOLEAN ELSE {TRUE}

(***************************************************************************)
(* Spec: a handler used through its public methods, in any order.          *)
(***************************************************************************)
OrchIdle ==
    /\ pc = "idle" /\ tickers = <<>> /\ pending = "none" /\ escaped = "none"
    /\ orchCloses = 0 /\ connects = 0 /\ recvFailed = FALSE
NoLocal == [kind |-> "None", rows |-> <<>>]
BatchIdle ==
    /\ bpc = "idle" /\ todo = <<>> /\ bidx = 0 /\ started = <<>>
    /\ outcomes = <<>> /\ raw_df = NoLocal /\ processed_df = NoLocal
    /\ batchError = "none"
FetchIdle ==
    /\ fin = [kind |-> "none", aggs |-> <<>>, attrs |-> TRUE]
    /\ fout = [ret |-> NoLocal, raised |-> "unset"]
    /\ din = NoLocal
    /\ dout = [ret |-> NoLocal, raised |-> "unset"]
    /\ dout2 = [ret |-> NoLocal, raised |-> "unset"]

Init == HandlerInit /\ OrchIdle /\ BatchIdle /\ FetchIdle

CallConnect ==
    /\ \E conn \in ConnectOutcomes : DoConnect(conn)
    /\ UNCHANGED <<ovars, bvars, fvars>>
CallSubscribe ==
    /\ \E tks \in TickerLists, cb \in Callbacks \cup {None},
          conn \in ConnectionOutcomes(Self) :
          \E failAt \in 0..Len(tks) : DoSubscribe(tks, cb, conn, failAt)
    /\ UNCHANGED <<ovars, bvars, fvars>>
CallHandleMessage ==
    /\ \E m \in Decoded :
          \E cbOk \in CallbackOutcomes(Self, m) : DoHandleMessage(m, cbOk)
    /\ UNCHANGED <<ovars, bvars, fvars>>
CallStartStreaming ==
    /\ \E conn \in ConnectionOutcomes(Self) : DoStartStreaming(conn)
    /\ UNCHANGED <<ovars, bvars, fvars>>
LoopIteration ==
    /\ \/ \E raw \in RawMessages :
             \E cbOk \in CallbackOutcomes(Self, JsonLoads(raw)) :
                DoLoopIteration("message", raw, cbOk)
       \/ DoLoopIteration("recv_raises", NoRaw, TRUE)
    /\ UNCHANGED <<ovars, bvars, fvars>>
CallGetBufferData ==
    /\ \E ticker \in Symbols : DoGetBufferData(ticker)
    /\ UNCHANGED <<ovars, bvars, fvars>>
CallClose ==
    /\ \E closeOk \in BOOLEAN : DoClose(closeOk)
    /\ UNCHANGED <<ovars, bvars, fvars>>

Next ==
    \/ CallConnect
    \/ CallSubscribe
    \/ CallHandleMessage
    \/ CallStartStreaming
    \/ LoopIteration
    \/ CallGetBufferData
    \/ CallClose

Spec == Init /\ [][Next]_vars

(***************************************************************************)
(* SpecRT: run_realtime_pipeline(tickers, api_key) of main.py.             *)
(*   pc = "subscribe"  at  await handler.subscribe(tickers, callback=...)  *)
(*   pc = "start"      at  await handler.start_streaming()                 *)
(*   pc = "loop"       inside the loop of start_streaming                  *)
(*   pc = "except"     an exception has left the try block                 *)
(*   pc = "finally"    at  await handler.close()                           *)
(*   pc = "finished"   the coroutine has ended                             *)
(***************************************************************************)
handle_realtime_data == "handle_realtime_data"

\* The exceptions the handler's methods raise derive from Exception;
\* an interrupt arrives as KeyboardInterrupt or, when the event loop
\* cancels the task, as CancelledError (a BaseException).
Exceptions == {"ConnectError", "SubscribeError", "RecvError",
               "JSONDecodeError", "CloseError"}
Interrupts == {"KeyboardInterrupt", "CancelledError"}

\* the except clauses of run_realtime_pipeline: TRUE when exc is caught
ExceptClauses(exc) == exc = "KeyboardInterrupt" \/ exc \in Exceptions

\* connect() is called by the guard of subscribe and of start_streaming
ConnectCalls(self) == IF self.ws_client = NoClient THEN 1 ELSE 0

InitRT ==
    /\ HandlerInit
    /\ pc = "subscribe"
    /\ tickers \in TickerLists
    /\ pending = "none" /\ escaped = "none"
    /\ orchCloses = 0 /\ connects = 0 /\ recvFailed = FALSE
    /\ BatchIdle /\ FetchIdle

OrchSubscribe ==
    /\ pc = "subscribe"
    /\ \E conn \in ConnectionOutcomes(Self) :
          \E failAt \in 0..Len(tickers) :
             DoSubscribe(tickers, handle_realtime_data, conn, failAt)
    /\ connects' = connects + ConnectCalls(Self)
    /\ pending' = last'.raised
    /\ pc' = IF last'.raised = "none" THEN "start" ELSE "except"
    /\ UNCHANGED <<tickers, escaped, orchCloses, recvFailed, bvars, fvars>>

OrchStartStreaming ==
    /\ pc = "start"
    /\ \E conn \in ConnectionOutcomes(Self) : DoStartStreaming(conn)
    /\ connects' = connects + ConnectCalls(Self)
    /\ pending' = last'.raised
    /\ pc' = IF last'.raised = "none" THEN "loop" ELSE "except"
    /\ UNCHANGED <<tickers, escaped, orchCloses, recvFailed, bvars, fvars>>

OrchLoopIteration ==
    /\ pc = "loop"
    /\ \/ /\ \E raw \in RawMessages :
               \E cbOk \in CallbackOutcomes(Self, JsonLoads(raw)) :
                  DoLoopIteration("message", raw, cbOk)
          /\ UNCHANGED recvFailed
       \/ /\ DoLoopIteration("recv_raises", NoRaw, TRUE)
          /\ recvFailed' = TRUE
    /\ pending' = last'.raised
    /\ pc' = IF last'.raised = "none" THEN "loop" ELSE "except"
    /\ UNCHANGED <<tickers, escaped, orchCloses, connects, bvars, fvars>>

\* an external interrupt, delivered at an await of the try block
OrchInterrupt ==
    /\ pc \in {"subscribe", "start", "loop"}
    /\ \E i \in Interrupts : pending' = i
    /\ pc' = "except"
    /\ streaming' = FALSE
    /\ enteredFrom' = "-"
    /\ UNCHANGED <<ws_client, established, releases, closed, data_buffer,
                   callbacks, last>>
    /\ UNCHANGED <<tickers, escaped, orchCloses, connects, recvFailed,
                   bvars, fvars>>

\* except KeyboardInterrupt / except Exception: log, and go on to finally
OrchExcept ==
    /\ pc = "except"
    /\ pending' = IF ExceptClauses(pending) THEN "none" ELSE pending
    /\ pc' = "finally"
    /\ UNCHANGED <<hvars, tickers, escaped, orchCloses, connects, recvFailed,
                   bvars, fvars>>

\* finally: await handler.close()
OrchFinally ==
    /\ pc = "finally"
    /\ \E closeOk \in BOOLEAN : DoClose(closeOk)
    /\ orchCloses' = orchCloses + 1
    /\ escaped' = IF last'.raised # "none" THEN last'.raised ELSE pending
    /\ pc' = "finished"
    /\ UNCHANGED <<tickers, pending, connects, recvFailed, bvars, fvars>>

NextRT ==
    \/ OrchSubscribe
    \/ OrchStartStreaming
    \/ OrchLoopIteration
    \/ OrchInterrupt
    \/ OrchExcept
    \/ OrchFinally

\* The coroutine's own steps are taken once reached; whether a message
\* arrives, the transport fails or an interrupt is sent is up to the
\* environment.
SpecRT == InitRT /\ [][NextRT]_vars
             /\ WF_vars(OrchExcept) /\ WF_vars(OrchFinally)

(***************************************************************************)
(* fetch_stock_data of data_acquirer.py.  The REST client either raises    *)
(* or yields a sequence of aggregates; the model keeps of an aggregate its *)
(* timestamp (ms), its close and its optional vwap.                        *)
(***************************************************************************)
Agg(ts, cl, vw) == [timestamp |-> ts, close |-> cl, vwap |-> vw]
Aggs == { Agg(ts, cl, vw) : ts \in 1..MaxTs, cl \in {Num(10), Num(20)},
                            vw \in {Num(15), Absent} }
AggLists == UNION { [1..n -> Aggs] : n \in 0..MaxAggs }

\* What can happen to the request: RESTClient() or list_aggs/iteration raise
\* (BadResponse, ConnectionError, anything else), or the pages are drained.
\* attrs tells whether the exception object carries the attributes status
\* and response that the BadResponse handler reads; that is up to the client
\* library, and reading an attribute an object lacks raises AttributeError.
TransportFailures == {"BadResponse", "ConnectionError", "OtherException"}
Response(kind, aggs, attrs) == [kind |-> kind, aggs |-> aggs, attrs |-> attrs]
Failures ==
    { Response(k, <<>>, TRUE) : k \in TransportFailures }
      \cup { Response("BadResponse", <<>>, FALSE) }
ClientBehaviours == { Response("aggs", l, TRUE) : l \in AggLists } \cup Failures

\* A DataFrame is its rows in order, each with its index; None is no frame.
NoneFrame == [kind |-> "None", rows |-> <<>>]
Frame(rows) == [kind |-> "DataFrame", rows |-> rows]
IsNoneOrEmpty(df) == df.kind = "None" \/ df.rows = <<>>
NoColumn == <<"nocol", 0>>

\* pd.to_datetime(agg.timestamp, unit='ms', utc=True)
UtcIndex(ms) == [ms |-> ms, tz |-> "UTC"]

\* the rows built from aggs_list, after set_index('timestamp')
AggRows(aggs) ==
    [i \in 1..Len(aggs) |->
        [index |-> UtcIndex(aggs[i].timestamp), close |-> aggs[i].close,
         vwap |-> aggs[i].vwap, daily_return |-> NoColumn]]

\* the value a call gives back, or the exception that leaves it
Returns(v) == [ret |-> v, raised |-> "none"]
Raises(e) == [ret |-> NoneFrame, raised |-> e]

\* fetch_stock_data: an exception raised in the try block is logged and
\* turned into None; one raised inside a handler leaves the function.
fetch_stock_data(resp) ==
    CASE resp.kind = "BadResponse" ->
           IF resp.attrs THEN Returns(NoneFrame) ELSE Raises("AttributeError")
      [] resp.kind = "ConnectionError" -> Returns(NoneFrame)
      [] resp.kind = "OtherException" -> Returns(NoneFrame)
      [] OTHER ->
           IF resp.aggs = <<>> THEN Returns(NoneFrame)
           ELSE LET df == Frame(AggRows(resp.aggs))
                IN IF df.rows = <<>> THEN Returns(NoneFrame) ELSE Returns(df)

(***************************************************************************)
(* preprocess_data, save_data_to_csv and load_data_from_csv of             *)
(* data_processor.py.  A cell is a number or missing (None / NaN).         *)
(***************************************************************************)
Columns == {"close", "vwap"}
IsNull(v) == v = Absent
HasNull(rows) == \E i \in 1..Len(rows) : \E c \in Columns : IsNull(rows[i][c])
RowHasNull(row) == \E c \in Columns : IsNull(row[c])

\* index.tz is None: tz_localize('UTC'); another zone: tz_convert('UTC')
TzNormalize(rows) ==
    [i \in 1..Len(rows) |-> [rows[i] EXCEPT !.index.tz = "UTC"]]

\* DataFrame.ffill(): the last known value of the column, if any
RECURSIVE FfillCell(_, _, _)
FfillCell(rows, c, i) ==
    IF ~IsNull(rows[i][c]) \/ i = 1 THEN rows[i][c]
    ELSE FfillCell(rows, c, i - 1)
Ffill(rows) ==
    [i \in 1..Len(rows) |->
        [rows[i] EXCEPT !.close = FfillCell(rows, "close", i),
                        !.vwap = FfillCell(rows, "vwap", i)]]

\* DataFrame.bfill(): the next known value of the column, if any
RECURSIVE BfillCell(_, _, _)
BfillCell(rows, c, i) ==
    IF ~IsNull(rows[i][c]) \/ i = Len(rows) THEN rows[i][c]
    ELSE BfillCell(rows, c, i + 1)
Bfill(rows) ==
    [i \in 1..Len(rows) |->
        [rows[i] EXCEPT !.close = BfillCell(rows, "close", i),
                        !.vwap = BfillCell(rows, "vwap", i)]]

\* DataFrame.dropna(): the rows without a missing cell, in order
RECURSIVE Dropna(_)
Dropna(rows) ==
    IF rows = <<>> THEN <<>>
    ELSE IF RowHasNull(Head(rows)) THEN Dropna(Tail(rows))
    ELSE <<Head(rows)>> \o Dropna(Tail(rows))

\* step 2 with bfill() called before ffill()
HandleMissing_bfill_first(rows) ==
    IF HasNull(rows)
    THEN LET filled == Ffill(Bfill(rows))
         IN IF HasNull(filled) THEN Dropna(filled) ELSE filled
    ELSE rows

\* step 2 of preprocess_data
HandleMissing(rows) ==
    IF HasNull(rows)
    THEN LET filled == Bfill(Ffill(rows))
         IN IF HasNull(filled) THEN Dropna(filled) ELSE filled
    ELSE rows

\* close.pct_change() with the first value filled with 0:
\* close[i] / close[i-1] - 1, kept as the fraction (close[i] - close[i-1]) / close[i-1]
Ratio(n, d) == <<"ratio", n, d>>
PctChange(rows, i) ==
    IF i = 1 THEN Num(0)
    ELSE Ratio(rows[i].close[2] - rows[i - 1].close[2], rows[i - 1].close[2])
\* daily_return with the first row dropped instead of filled with 0
AddDailyReturn_drop_first(rows) ==
    IF rows = <<>> THEN rows
    ELSE Tail([i \in 1..Len(rows) |->
                  [rows[i] EXCEPT !.daily_return = PctChange(rows, i)]])

AddDailyReturn(rows) ==
    [i \in 1..Len(rows) |-> [rows[i] EXCEPT !.daily_return = PctChange(rows, i)]]

\* preprocess_data(df, ticker)
preprocess_data(df) ==
    IF IsNoneOrEmpty(df) THEN Returns(NoneFrame)
    ELSE Returns(Frame(AddDailyReturn(HandleMissing(TzNormalize(df.rows)))))

\* save_data_to_csv(df, filename, directory): the file system decides whether
\* the directory exists or can be made and whether the file can be written.
SaveEnvs == [dirExists : BOOLEAN, makedirsOk : BOOLEAN, writeOk : BOOLEAN]
save_data_to_csv(df, env) ==
    IF IsNoneOrEmpty(df) THEN FALSE
    ELSE IF ~env.dirExists /\ ~env.makedirsOk THEN FALSE
    ELSE env.writeOk

\* load_data_from_csv(filename, directory): None when the file is missing or
\* cannot be read, else a frame of the shape that was read.
LoadEnvs == [exists : BOOLEAN, readOk : BOOLEAN, sameShape : BOOLEAN]
load_data_from_csv(env) ==
    IF ~env.exists THEN "None"
    ELSE IF ~env.readOk THEN "None"
    ELSE IF env.sameShape THEN "same shape" ELSE "shape mismatch"

(***************************************************************************)
(* SpecBatch: the historical loop of main.py, run_pipeline for each of     *)
(* tickers_to_process.                                                     *)
(*   bpc = "for"         at the head of  for t in tickers_to_process       *)
(*   bpc = "fetch"       run_pipeline, at fetch_stock_data                 *)
(*   bpc = "preprocess"  at preprocess_data                                *)
(*   bpc = "save"        at save_data_to_csv                               *)
(*   bpc = "load"        at load_data_from_csv                             *)
(*   bpc = "done"        after the loop                                    *)
(*   bpc = "crashed"     an exception left run_pipeline and the loop       *)
(***************************************************************************)
BatchLists == UNION { [1..n -> Tickers] : n \in 1..MaxBatch }
\* The loop's outcomes depend on whether the fetch fails, finds nothing or
\* finds data, and on whether the data survives preprocessing: responses of
\* no or one aggregate and the transport failures show them all.
BatchBehaviours ==
    { Response("aggs", <<>>, TRUE) }
      \cup { Response("aggs", <<a>>, TRUE) : a \in Aggs } \cup Failures

InitBatch ==
    /\ HandlerInit /\ OrchIdle /\ FetchIdle
    /\ bpc = "for"
    /\ todo \in BatchLists
    /\ bidx = 0 /\ started = <<>> /\ outcomes = <<>>
    /\ raw_df = NoneFrame /\ processed_df = NoneFrame
    /\ batchError = "none"

\* run_pipeline returns: back to the for statement
EndPipeline(outcome) ==
    /\ outcomes' = Append(outcomes, outcome)
    /\ bpc' = "for"

\* an exception leaves run_pipeline; nothing in the loop catches it
Crash(exc) ==
    /\ outcomes' = Append(outcomes, "raised")
    /\ batchError' = exc
    /\ bpc' = "crashed"

\* for t in tickers_to_process: run_pipeline(ticker=t, ...)
BatchFor ==
    /\ bpc = "for"
    /\ IF bidx < Len(todo)
       THEN /\ bidx' = bidx + 1
            /\ started' = Append(started, todo[bidx + 1])
            /\ bpc' = "fetch"
       ELSE /\ bpc' = "done"
            /\ UNCHANGED <<bidx, started>>
    /\ raw_df' = NoneFrame /\ processed_df' = NoneFrame
    /\ UNCHANGED <<todo, outcomes, batchError, hvars, ovars, fvars>>

\* Step 1: raw_df = fetch_stock_data(...)
BatchFetch ==
    /\ bpc = "fetch"
    /\ \E resp \in BatchBehaviours :
          LET r == fetch_stock_data(resp)
          IN IF r.raised # "none"
             THEN Crash(r.raised) /\ UNCHANGED raw_df
             ELSE /\ raw_df' = r.ret
                  /\ batchError' = batchError
                  /\ IF IsNoneOrEmpty(r.ret)
                     THEN EndPipeline("no data acquired")
                     ELSE bpc' = "preprocess" /\ UNCHANGED outcomes
    /\ UNCHANGED <<todo, bidx, started, processed_df, hvars, ovars, fvars>>

\* Step 2: processed_df = preprocess_data(raw_df, ticker=ticker)
BatchPreprocess ==
    /\ bpc = "preprocess"
    /\ LET r == preprocess_data(raw_df)
       IN IF r.raised # "none"
          THEN Crash(r.raised) /\ UNCHANGED processed_df
          ELSE /\ processed_df' = r.ret
               /\ batchError' = batchError
               /\ IF IsNoneOrEmpty(r.ret)
                  THEN EndPipeline("not preprocessed")
                  ELSE bpc' = "save" /\ UNCHANGED outcomes
    /\ UNCHANGED <<todo, bidx, started, raw_df, hvars, ovars, fvars>>

\* Step 3: save_data_to_csv(processed_df, output_filename, directory="data")
BatchSave ==
    /\ bpc = "save"
    /\ \E env \in SaveEnvs :
          IF save_data_to_csv(processed_df, env)
          THEN bpc' = "load" /\ UNCHANGED outcomes
          ELSE EndPipeline("not saved")
    /\ UNCHANGED <<todo, bidx, started, raw_df, processed_df, batchError,
                   hvars, ovars, fvars>>

\* loaded_df = load_data_from_csv(output_filename, directory="data")
BatchLoad ==
    /\ bpc = "load"
    /\ \E env \in LoadEnvs :
          EndPipeline(IF load_data_from_csv(env) = "None"
                      THEN "saved, not loaded back" ELSE "saved")
    /\ UNCHANGED <<todo, bidx, started, raw_df, processed_df, batchError,
                   hvars, ovars, fvars>>

NextBatch ==
    \/ BatchFor
    \/ BatchFetch
    \/ BatchPreprocess
    \/ BatchSave
    \/ BatchLoad

\* The loop is sequential code: each statement is executed once reached.
SpecBatch == InitBatch /\ [][NextBatch]_vars /\ WF_vars(NextBatch)

(***************************************************************************)
(* SpecFetch: one call of fetch_stock_data, for every client behaviour.    *)
(***************************************************************************)
NoResponse == Response("none", <<>>, TRUE)
Unset == [ret |-> NoneFrame, raised |-> "unset"]

InitFetch ==
    /\ HandlerInit /\ OrchIdle /\ BatchIdle
    /\ fin = NoResponse /\ fout = Unset
    /\ din = NoneFrame /\ dout = Unset /\ dout2 = Unset

Request ==
    /\ fin = NoResponse
    /\ fin' \in ClientBehaviours
    /\ UNCHANGED <<fout, din, dout, dout2, hvars, ovars, bvars>>

Fetch ==
    /\ fin # NoResponse /\ fout = Unset
    /\ fout' = fetch_stock_data(fin)
    /\ UNCHANGED <<fin, din, dout, dout2, hvars, ovars, bvars>>

NextFetch == Request \/ Fetch

SpecFetch == InitFetch /\ [][NextFetch]_vars

(***************************************************************************)
(* SpecClean: preprocess_data applied to a frame, and again to its result. *)
(* The frames have a DatetimeIndex, naive or in UTC, and the columns close *)
(* and vwap, any cell of which may be missing.                             *)
(***************************************************************************)
Cells == {Num(10), Num(20), Absent}
CleanRow(i, tz, cl, vw) ==
    [index |-> [ms |-> i, tz |-> tz], close |-> cl, vwap |-> vw,
     daily_return |-> NoColumn]
CleanFrames(n) ==
    { Frame([i \in 1..n |-> CleanRow(i, tz, cl[i], vw[i])]) :
        tz \in {"UTC", "naive"}, cl \in [1..n -> Cells], vw \in [1..n -> Cells] }
CleanInputs == {NoneFrame} \cup UNION { CleanFrames(n) : n \in 0..MaxCleanRows }

InitClean ==
    /\ HandlerInit /\ OrchIdle /\ BatchIdle
    /\ fin = NoResponse /\ fout = Unset
    /\ din \in CleanInputs /\ dout = Unset /\ dout2 = Unset

\* processed = preprocess_data(df); df itself is only copied
Clean ==
    /\ dout = Unset
    /\ dout' = preprocess_data(din)
    /\ UNCHANGED <<din, dout2, fin, fout, hvars, ovars, bvars>>

\* preprocess_data(processed)
CleanAgain ==
    /\ dout # Unset /\ dout2 = Unset
    /\ dout2' = preprocess_data(dout.ret)
    /\ UNCHANGED <<din, dout, fin, fout, hvars, ovars, bvars>>

NextClean == Clean \/ CleanAgain

SpecClean == InitClean /\ [][NextClean]_vars

(***************************************************************************)
(*                              The claims                                 *)
(***************************************************************************)
Handled == JsonLoads(last.msg)
IsRouting == last.op \in {"recv", "handle_message"} /\ last.msg # NoRaw

\* A trade message as section 6 describes it: numeric timestamp and price,
\* a whole-number size.
WellFormed(m) ==
    /\ m.kind = "map" /\ m.ev = "T"
    /\ IsNum(m.t) /\ IsNum(m.p) /\ IsNum(m.s) /\ m.s[2] % 10 = 0

\* Text that is not JSON, a value that is not a mapping, or a trade whose
\* price or size is missing or not numeric.
Malformed(raw) ==
    \/ ~raw.json
    \/ raw.value.kind # "map"
    \/ /\ raw.value.ev = "T"
       /\ \/ raw.value.p = Absent \/ raw.value.p = BadStr
          \/ raw.value.s = Absent \/ raw.value.s = BadStr

\* C1 (as claimed): a malformed message received by the loop of
\* start_streaming is skipped; the loop does not exit and no exception
\* leaves start_streaming.
C1_MalformedSkipped ==
    (last.op = "recv" /\ last.msg # NoRaw /\ Malformed(last.msg))
        => (streaming /\ last.raised = "none")

\* C2: a well-formed trade message for a symbol that has a buffer and a
\* callback appends exactly one row, carrying the message's price and size,
\* to that symbol's buffer, leaves every other buffer as it was, and invokes
\* the symbol's callback exactly once, with that row.
C2_TradeRouted ==
    [][ LET m == JsonLoads(last'.msg)
            row == [timestamp |-> <<"utc_ms", m.t[2]>>, price |-> m.p,
                    size |-> m.s, exchange |-> m.x, conditions |-> <<>>]
        IN (/\ last'.op \in {"recv", "handle_message"}
            /\ last'.msg.json
            /\ WellFormed(m)
            /\ m.sym \in DOMAIN data_buffer
            /\ m.sym \in DOMAIN callbacks)
           => /\ data_buffer' =
                   [data_buffer EXCEPT ![m.sym] = Append(@, row)]
              /\ last'.calls = << [cb |-> callbacks[m.sym], row |-> row] >>
      ]_vars

C2_Witness ==
    /\ last.op = "recv" /\ last.msg.json /\ WellFormed(Handled)
    /\ DOMAIN data_buffer = Tickers
    /\ Handled.sym \in DOMAIN data_buffer
    /\ Len(data_buffer[Handled.sym]) = 2
    /\ Len(last.calls) = 1

\* C3: a message that is not a trade event, or a trade for a symbol without
\* a buffer, changes no buffer, creates none, leaves the callback map as it
\* was and invokes no callback.
C3_Dropped ==
    [][ LET m == JsonLoads(last'.msg)
        IN (/\ last'.op \in {"recv", "handle_message"}
            /\ last'.msg.json
            /\ ~(m.kind = "map" /\ m.ev = "T" /\ m.sym \in DOMAIN data_buffer))
           => /\ data_buffer' = data_buffer
              /\ callbacks' = callbacks
              /\ last'.calls = <<>>
      ]_vars

C3_Witness ==
    /\ IsRouting /\ last.msg.json
    /\ Handled.kind = "map" /\ Handled.ev = "T"
    /\ Handled.sym \in Symbols \ DOMAIN data_buffer
    /\ DOMAIN data_buffer # {} /\ DOMAIN callbacks # {}
    /\ Buffered(data_buffer) = 1

\* C4 (as claimed): the transport session is released at most once per
\* established session, however often close() is called, and never when no
\* session was established.
C4_ReleasedOnce == releases <= (IF established THEN 1 ELSE 0)

\* C5 (as claimed): whenever run_realtime_pipeline ends, it has called
\* handler.close(), and neither the connect, subscribe, receive or decode
\* error nor the interrupt that ended the try block has left it; after a
\* receive error the loop is left and connect() is not called again; once
\* the try block is left, the run ends.
C5_OrderlyShutdown ==
    /\ [](pc = "finished" =>
            /\ orchCloses >= 1
            /\ escaped \notin (Exceptions \ {"CloseError"}) \cup Interrupts)
    /\ [](recvFailed => ~streaming /\ pc \in {"except", "finally", "finished"})
    /\ [][recvFailed => connects' = connects]_vars
    /\ [](pending # "none" => pc \in {"except", "finally", "finished"})
    /\ [](pc \in {"except", "finally"} => <>(pc = "finished"))

\* C6 (as claimed): the historical loop starts run_pipeline for every
\* ticker of the list, in list order, whatever the earlier pipelines'
\* outcomes; no exception leaves the loop.
IsPrefix(a, b) == Len(a) <= Len(b) /\ \A i \in 1..Len(a) : a[i] = b[i]
C6_AllAttempted ==
    /\ [](IsPrefix(started, todo) /\ bpc # "crashed" /\ batchError = "none")
    /\ [](bpc = "done" => started = todo)
    /\ <>(started = todo /\ bpc = "done")

\* C7 (as claimed): after a subscribe that returns, each subscribed symbol's
\* callback is the one just given: none when the callback is None.
C7_CallbackReplaced ==
    (last.op = "subscribe" /\ last.raised = "none")
        => \A i \in 1..Len(last.tks) :
              IF last.cb = None
              THEN last.tks[i] \notin DOMAIN callbacks
              ELSE /\ last.tks[i] \in DOMAIN callbacks
                   /\ callbacks[last.tks[i]] = last.cb

\* C8 (as claimed): the receive loop runs only if it was entered with an
\* established, not closed session and at least one subscription.
C8_OnlyFromSubscribed == streaming => enteredFrom = "Subscribed"

\* C9 (as claimed): the frame fetch_stock_data returns is indexed by
\* strictly increasing timestamps.
C9_SortedUnique ==
    (fout.raised = "none" /\ fout.ret.kind = "DataFrame")
        => \A i \in 1..(Len(fout.ret.rows) - 1) :
              fout.ret.rows[i].index.ms < fout.ret.rows[i + 1].index.ms

\* C10 (as claimed): for an empty result fetch_stock_data returns without
\* raising, and what it gives back after a transport failure differs from
\* what it returns for an empty result.
C10_NotFoundDistinct ==
    /\ (fin = Response("aggs", <<>>, TRUE) /\ fout # Unset)
          => fout.raised = "none"
    /\ (fin.kind \in TransportFailures /\ fout # Unset)
          => fout # fetch_stock_data(Response("aggs", <<>>, TRUE))

\* The value section 4.2 gives a cell after both fills: its own if known,
\* else the nearest known one above it in the column, else the nearest
\* known one below it, else it stays missing.
Known(rows, c) == { j \in 1..Len(rows) : rows[j][c] # Absent }
Above(rows, c, i) == { j \in Known(rows, c) : j < i }
Below(rows, c, i) == { j \in Known(rows, c) : j > i }
Nearest(js, i) ==
    CHOOSE j \in js : \A k \in js : (IF k > i THEN k - i ELSE i - k)
                                      >= (IF j > i THEN j - i ELSE i - j)
Filled(rows, c, i) ==
    IF i \in Known(rows, c) THEN rows[i][c]
    ELSE IF Above(rows, c, i) # {} THEN rows[Nearest(Above(rows, c, i), i)][c]
    ELSE IF Below(rows, c, i) # {} THEN rows[Nearest(Below(rows, c, i), i)][c]
    ELSE Absent
Cleaned == dout # Unset /\ din.kind = "DataFrame" /\ din.rows # <<>>

\* C11: after preprocess_data every cell holds the value forward-fill then
\* backward-fill gives it (its own, else the nearest earlier known value of
\* its column, else the nearest later one); the rows, in order, are those in
\* which no cell is still missing after both fills, and no other row is
\* dropped.
C11_FfillBeforeBfill ==
    Cleaned =>
        LET inp == din.rows
            out == dout.ret.rows
            kept == { i \in 1..Len(inp) :
                        \A c \in Columns : Filled(inp, c, i) # Absent }
        IN /\ dout.raised = "none"
           /\ Len(out) = Cardinality(kept)
           /\ \A n \in 1..Len(out) :
                 LET i == CHOOSE k \in kept :
                             Cardinality({ j \in kept : j < k }) = n - 1
                 IN /\ out[n].index.ms = inp[i].index.ms
                    /\ \A c \in Columns : out[n][c] = Filled(inp, c, i)

\* a single interior missing close between 10 and 20 has become 10; the
\* leading missing vwap has taken the next known value
C11_Witness ==
    /\ Cleaned /\ Len(din.rows) = 3
    /\ din.rows[1].close = Num(10) /\ din.rows[2].close = Absent
    /\ din.rows[3].close = Num(20)
    /\ din.rows[1].vwap = Absent /\ din.rows[2].vwap = Num(20)
    /\ Len(dout.ret.rows) = 3
    /\ dout.ret.rows[2].close = Num(10)
    /\ dout.ret.rows[1].vwap = Num(20)

\* a frame or None without a missing cell in any column
NoMissing(df) ==
    \A i \in 1..Len(df.rows) :
        /\ \A c \in Columns : df.rows[i][c] # Absent
        /\ df.rows[i].daily_return # Absent

\* C12 (as claimed): when the first preprocess_data leaves no missing
\* value, applying preprocess_data to its result gives that result again:
\* the same rows, index, columns and values.
C12_Idempotent ==
    (dout2 # Unset /\ dout.ret.kind = "DataFrame" /\ NoMissing(dout.ret))
        => dout2 = dout

\* C12: when the first preprocess_data returns a frame that has rows, and
\* so no missing value, applying preprocess_data to that frame gives it
\* again: the same rows, index, columns and values, daily_return
\* included; the caller's frame is never modified.
C12_IdempotentNonEmpty ==
    /\ []((dout2 # Unset /\ dout.ret.kind = "DataFrame"
             /\ dout.ret.rows # <<>> /\ NoMissing(dout.ret))
           => dout2 = dout)
    /\ [][din' = din]_vars

\* a naive index and a gap that had to be filled; three rows both times
C12_Witness ==
    /\ dout2 # Unset /\ dout2.ret.kind = "DataFrame"
    /\ Len(din.rows) = 3 /\ Len(dout2.ret.rows) = 3
    /\ din.rows[1].index.tz = "naive" /\ HasNull(din.rows)
    /\ din.rows[2].close # din.rows[3].close
    /\ dout2.ret.rows[1].daily_return = Num(0)

\* C13 (as claimed): whatever method is called, the buffer of a symbol that
\* has one keeps its rows, in order, as the beginning of what it holds
\* afterwards.
C13_AppendOnly ==
    [][ \A t \in DOMAIN data_buffer :
           /\ t \in DOMAIN data_buffer'
           /\ IsPrefix(data_buffer[t], data_buffer'[t]) ]_vars

\* C14 (as claimed): a connect() that fails is raised to the caller and
\* leaves the handler without a session: a subscribe() or start_streaming()
\* that then returns has connected first, and close() releases nothing
\* while no session is established.
C14_FailedConnectStaysDisconnected ==
    /\ []((last.op = "connect" /\ ~established) => last.raised # "none")
    /\ [][ (/\ ~established
             /\ last'.op \in {"subscribe", "start_streaming"}
             /\ last'.raised = "none") => established' ]_vars
    /\ [](~established => releases = 0)

====
